---- MODULE Spec2Model ----
(***************************************************************************)
(* rtl_osv21.py: Oregon Scientific v2.1 decoding.                          *)
(*                                                                         *)
(* Two specifications over one set of variables:                           *)
(*   Spec      decodePacketv21 called directly on logical packets, the     *)
(*             returned map handed to the next call;                       *)
(*   ScanSpec  the scan loop of main over a raw (doubled) bit stream.      *)
(*                                                                         *)
(* Reading-map values are kept in hundredths (round(x, 2) * 100), so that  *)
(* all arithmetic is integer arithmetic.                                   *)
(***************************************************************************)
EXTENDS Integers, Sequences, FiniteSets, TLC

VARIABLES
    bits,      \* main: the raw bit stream returned by readRTLFile
    i,         \* main: the scan cursor
    pc,        \* main: "loop" | "done" | "error";  "call" in Spec
    err,       \* main: the exception that left the loop, or "none"
    tests,     \* main: number of preamble tests evaluated (history)
    packet,    \* the logical packet of the latest decode attempt
    wxData,    \* the reading map (accumulator)
    wxIn,      \* the reading map as passed to the latest decode attempt
    ret,       \* outcome of the latest decode attempt
    calls,     \* number of decode attempts so far (history)
    revisit    \* the latest attempt repeated the packet of the one before

vars == <<bits, i, pc, err, tests, packet, wxData, wxIn, ret, calls, revisit>>

(***************************************************************************)
(* Python sequence primitives                                              *)
(***************************************************************************)
Min(a, b) == IF a < b THEN a ELSE b

Max(a, b) == IF a > b THEN a ELSE b

\* A slice bound as Python clips it against a sequence of length n.
Clip(x, n) == IF x < 0 THEN Max(x + n, 0) ELSE Min(x, n)

\* s[a:b]
Slice(s, a, b) == SubSeq(s, Clip(a, Len(s)) + 1, Clip(b, Len(s)))

\* s[a:b:2] for a >= 0
Slice2(s, a, b) ==
    LET lo == Clip(a, Len(s))
        hi == Clip(b, Len(s))
        n  == IF hi > lo THEN (hi - lo + 1) \div 2 ELSE 0
    IN  [k \in 1..n |-> s[lo + 2 * (k - 1) + 1]]

\* s[a::2] for a >= 0
From2(s, a) == Slice2(s, a, Len(s))

RECURSIVE Sum(_)
Sum(s) == IF Len(s) = 0 THEN 0 ELSE Head(s) + Sum(Tail(s))

\* "%x" % n for one nibble
HexDigit(n) ==
    <<"0", "1", "2", "3", "4", "5", "6", "7",
      "8", "9", "a", "b", "c", "d", "e", "f">>[n + 1]

\* ''.join(["%x" % i for i in values])
RECURSIVE HexJoin(_)
HexJoin(values) ==
    IF Len(values) = 0 THEN ""
    ELSE HexDigit(Head(values)) \o HexJoin(Tail(values))

(***************************************************************************)
(* The reading map: a function from field names to values                  *)
(***************************************************************************)
EmptyMap == [k \in {} |-> 0]

\* wxData[key] = value
Put(m, key, value) ==
    [k \in DOMAIN m \cup {key} |-> IF k = key THEN value ELSE m[k]]

(***************************************************************************)
(* nibbles2value and checksum                                              *)
(***************************************************************************)
nibbles2value(nibbles) ==
    [k \in 1..(Len(nibbles) \div 4) |->
        8 * nibbles[4 * k] + 4 * nibbles[4 * k - 1]
          + 2 * nibbles[4 * k - 2] + nibbles[4 * k - 3]]

\* Fold8 with the carry dropped: value & 0xFF.
Fold8NoCarry(value) == value % 256

\* (value & 0xFF) + (value >> 8)
Fold8(value) == (value % 256) + (value \div 256)

checksum(b) == Fold8(Sum(nibbles2value(b)))

(***************************************************************************)
(* decodePacketv21                                                         *)
(***************************************************************************)
\* nibbles2value(packet[16:20]): the sync word, empty when the packet has
\* fewer than 20 bits.
SyncWord(p) == nibbles2value(Slice(p, 16, 20))

\* The sensor name, one hex digit per complete nibble of packet[20:36].
SensorId(p) == HexJoin(nibbles2value(Slice(p, 20, 36)))

\* The end of the data section for a sensor.
DataSize(sensor, p) ==
    CASE sensor = "5d60" -> 96
      [] sensor = "2d10" -> 84
      [] sensor = "3d00" -> 88
      [] sensor = "1d20" -> 80
      [] sensor = "1d30" -> 80
      [] OTHER           -> Len(p) - 16

\* ChecksumMatches comparing the low nibble only.
ChecksumLowOnly(ocs, ccs) == ocs[1] = ccs % 16

\* ChecksumMatches with the two observed nibbles taken high, low.
ChecksumSwapped(ocs, ccs) ==
    /\ ocs[2] = ccs % 16
    /\ ocs[1] = (ccs \div 16) % 16

\* ocs1 == ccs1 and ocs2 == ccs2, with ccs1 = ccs & 0xF, ccs2 = (ccs >> 4) & 0xF
ChecksumMatches(ocs, ccs) ==
    /\ ocs[1] = ccs % 16
    /\ ocs[2] = (ccs \div 16) % 16

\* 10*n[2] + n[1] + 0.1*n[0], in tenths
Bcd10(n) == 100 * n[3] + 10 * n[2] + n[1]

\* The temperature in tenths of a degree C: packet[52:64], negated when
\* any bit of packet[64:68] is set.  (The same text at lines 201-204,
\* 284-287 and 299-302.)
Temp10(p) ==
    LET t == Bcd10(nibbles2value(Slice(p, 52, 64)))
    IN  IF Sum(Slice(p, 64, 68)) > 0 THEN -t ELSE t

\* round(temp*9.0/5.0 + 32, 2), in hundredths
TempF100(t10) == 18 * t10 + 3200

\* The relative humidity in percent: packet[68:76]
Humi(p) ==
    LET h == nibbles2value(Slice(p, 68, 76))
    IN  10 * h[2] + h[1]

\* round(baro/33.8638866667, 2), in hundredths, baro in 856..1021
BaroIn100(baro) == (baro * 295300 + 50000) \div 100000

\* round(rtotl/25.4, 2), in hundredths
RainIn100(rtotl) == (rtotl * 1000 + 127) \div 254

\* round(speed*2.23694, 2), in hundredths, speed in tenths of m/s
Mph100(s10) == (s10 * 223694 + 5000) \div 10000

\* The value stored when the dew point is not a number.
NaN == -2147483647

\* round(dewpt*9.0/5.0 + 32, 2), in hundredths: the Magnus formula
\*   dewpt = log(humi/100.0) + b*temp/(c + temp);  dewpt = c*dewpt/(b - dewpt)
\* with b = 17.67 and c = 243.5.  The logarithm is tabulated: the values
\* are the formula in double arithmetic at the (temp, humi) pairs of the
\* packets of this model.  log(0) is -inf and the quotient -inf/inf is not
\* a number, whatever the temperature.
Dewpt100(t10, humi) ==
    CASE humi = 0                   -> NaN
      [] t10 = 215 /\ humi = 45     -> 4834
      [] t10 = -1665 /\ humi = 165  -> -26645
      [] t10 = -536 /\ humi = 92    -> -6573

Decode5d60(p, wx) ==
    LET b    == nibbles2value(Slice(p, 80, 88))
        baro == 10 * b[2] + b[1] + 856
        w1   == Put(wx, "indoortempf", TempF100(Temp10(p)))
        w2   == Put(w1, "indoorhumidity", 100 * Humi(p))
    IN  Put(w2, "baromin", BaroIn100(baro))

\* Decode2d10 adding the total to the value already in the map.
Decode2d10Accum(p, wx) ==
    LET r     == nibbles2value(Slice(p, 64, 84))
        rtotl == 1000 * r[5] + 100 * r[4] + 10 * r[3] + r[2] + r[1]
        old   == IF "dailyrainin" \in DOMAIN wx THEN wx["dailyrainin"] ELSE 0
    IN  Put(wx, "dailyrainin", old + RainIn100(rtotl))

Decode2d10(p, wx) ==
    LET r     == nibbles2value(Slice(p, 64, 84))
        rtotl == 1000 * r[5] + 100 * r[4] + 10 * r[3] + r[2] + r[1]
    IN  Put(wx, "dailyrainin", RainIn100(rtotl))

Decode3d00(p, wx) ==
    LET d    == nibbles2value(Slice(p, 52, 64))
        wdir == 100 * d[3] + 10 * d[2] + d[1]
        gspd == Bcd10(nibbles2value(Slice(p, 64, 76)))
        aspd == Bcd10(nibbles2value(Slice(p, 76, 88)))
        w1   == Put(wx, "windspeedmph", Mph100(aspd))
        w2   == Put(w1, "windgustmph", Mph100(gspd))
    IN  Put(w2, "winddir", 100 * wdir)

\* Decode1d20 storing the humidity it computes as well.
Decode1d20Humidity(p, wx) ==
    Put(Put(wx, "temp2f", TempF100(Temp10(p))), "humidity", 100 * Humi(p))

Decode1d20(p, wx) == Put(wx, "temp2f", TempF100(Temp10(p)))

Decode1d30(p, wx) ==
    LET w1 == Put(wx, "tempf", TempF100(Temp10(p)))
        w2 == Put(w1, "humidity", 100 * Humi(p))
    IN  Put(w2, "dewptf", Dewpt100(Temp10(p), Humi(p)))

\* The branch of a valid packet: the extractor of the sensor, none for a
\* sensor that is not in the list.
Dispatch(sensor, p, wx) ==
    CASE sensor = "5d60" -> Decode5d60(p, wx)
      [] sensor = "2d10" -> Decode2d10(p, wx)
      [] sensor = "3d00" -> Decode3d00(p, wx)
      [] sensor = "1d20" -> Decode1d20(p, wx)
      [] sensor = "1d30" -> Decode1d30(p, wx)
      [] OTHER           -> wx

\* PacketSize without the doubling.
PacketSizeUndoubled(ds) == ds + 16

\* ds += 16; ds *= 2
PacketSize(ds) == (ds + 16) * 2

\* An attempt that raised: nothing is returned, the map is as it was.
Raised(e, wx) == [wxData |-> wx, ds |-> -1, err |-> e, valid |-> FALSE]

\* decodePacketv21(packet, wxData): the returned map and size, the
\* exception raised instead ("none" when it returns), and whether the
\* valid-packet branch was taken.
decodePacketv21(p, wx) ==
    IF Len(SyncWord(p)) = 0 THEN Raised("IndexError", wx)
    ELSE IF SyncWord(p)[1] = 10
    THEN LET sensor == SensorId(p)
             ds     == DataSize(sensor, p)
             ccs    == checksum(Slice(p, 20, ds))
             ocs    == nibbles2value(Slice(p, ds, ds + 8))
         IN  IF Len(ocs) # 2 THEN Raised("ValueError", wx)
             ELSE IF ChecksumMatches(ocs, ccs)
             THEN [wxData |-> Dispatch(sensor, p, wx), ds |-> PacketSize(ds),
                   err |-> "none", valid |-> TRUE]
             ELSE [wxData |-> wx, ds |-> PacketSize(ds),
                   err |-> "none", valid |-> FALSE]
    ELSE [wxData |-> wx, ds |-> PacketSize(0), err |-> "none", valid |-> FALSE]

(***************************************************************************)
(* The scan loop of main                                                   *)
(***************************************************************************)
\* The names bound in the module's namespace when main runs: the imports
\* (lines 4-13), the assignments (lines 17-28) and the functions.
ModuleNames ==
    {"os", "sys", "time", "numpy", "urllib", "struct", "deque", "datetime",
     "timedelta", "readRTLFile", "PWS_BASE_URL", "_BASE_PATH", "CONFIG_FILE",
     "STATE_FILE", "RTL_DATA_FILE", "loadConfig", "loadState", "saveRainfall",
     "nibbles2value", "checksum", "decodePacketv21", "record433MHzData",
     "main"}

\* decodePacket(packet, wxData, verbose=...): the name is looked up before
\* the call; a name that is not bound raises NameError.  The decoder of
\* this module is bound as decodePacketv21.
CallDecodePacket(p, wx) ==
    IF "decodePacket" \in ModuleNames
    THEN decodePacketv21(p, wx)
    ELSE Raised("NameError", wx)

\* LoopGuard without the 32 bits of margin.
LoopGuardNoMargin(b, c) == c < Len(b)

\* while i < len(bits)-32
LoopGuard(b, c) == c < Len(b) - 32

\* sum(bits[i:i+32:2]) == 16 and sum(bits[i+1:i+1+32:2]) == 0
Preamble(b, c) ==
    /\ Sum(Slice2(b, c, c + 32)) = 16
    /\ Sum(Slice2(b, c + 1, c + 1 + 32)) = 0

\* datetime.utcnow(), as one fixed stamp
UtcNow == 0

\* {'dateutc': ...}
ScanMap == Put(EmptyMap, "dateutc", UtcNow)

NoAttempt == [ds |-> -1, err |-> "none", valid |-> FALSE]

Outcome(r) == [ds |-> r.ds, err |-> r.err, valid |-> r.valid]

(***************************************************************************)
(* Inputs: logical packets and raw streams, built from the packet layout   *)
(*   preamble [0,16) sync [16,20) sensor [20,36) channel [36,40)           *)
(*   code [40,48) flags [48,52) data [52,ds) checksum [ds,ds+8)            *)
(*   postamble [ds+8,ds+16)                                                *)
(***************************************************************************)
MaxCalls == 2

LongBody == 22

MaxOffset == 3

NoiseLen == 40

\* The four bits of a nibble, least significant first.
NibBits(n) == <<n % 2, (n \div 2) % 2, (n \div 4) % 2, (n \div 8) % 2>>

RECURSIVE Flatten(_)
Flatten(nibs) ==
    IF Len(nibs) = 0 THEN <<>> ELSE NibBits(Head(nibs)) \o Flatten(Tail(nibs))

\* The checksum byte a transmitter appends: the nibble sum, the carry out
\* of the low byte added back in.
TxChecksum(nibs) ==
    LET total == Sum(nibs)
    IN  IF total < 256 THEN total ELSE total - 256 * (total \div 256) + total \div 256

Recognised == {"5d60", "2d10", "3d00", "1d20", "1d30"}

SensorNibs(name) ==
    CASE name = "5d60" -> <<5, 13, 6, 0>>
      [] name = "2d10" -> <<2, 13, 1, 0>>
      [] name = "3d00" -> <<3, 13, 0, 0>>
      [] name = "1d20" -> <<1, 13, 2, 0>>
      [] name = "1d30" -> <<1, 13, 3, 0>>
      [] name = "1d40" -> <<1, 13, 4, 0>>
      [] name = "ffff" -> <<15, 15, 15, 15>>

\* Nibbles from the channel to the end of the data section.
BodyLen(name) ==
    CASE name = "5d60" -> 15
      [] name = "2d10" -> 12
      [] name = "3d00" -> 13
      [] name = "1d20" -> 11
      [] name = "1d30" -> 11

\* Decimal digits: 21.5 C, sign clear, 45 % for a 1d20/1d30.
Digits == <<1, 3, 7, 0, 5, 1, 2, 0, 5, 4, 8, 2, 6, 9, 1>>

Patterns == 1..4

BodyNib(pat, k) ==
    CASE pat = 1 -> 0
      [] pat = 2 -> Digits[((k - 1) % Len(Digits)) + 1]
      [] pat = 3 -> 15
      [] pat = 4 -> (7 * k + 3) % 16

Body(pat, n) == [k \in 1..n |-> BodyNib(pat, k)]

\* The two checksum nibbles as sent (low, high), or one of them off by one.
CheckNibs(v, ck) ==
    CASE ck = "ok" -> <<v % 16, (v \div 16) % 16>>
      [] ck = "lo" -> <<(v + 1) % 16, (v \div 16) % 16>>
      [] ck = "hi" -> <<v % 16, (v \div 16 + 1) % 16>>

\* The logical bits of a packet with its postamble.
Frame(sync, name, body, ck) ==
    LET summed == SensorNibs(name) \o body
    IN  Flatten(<<15, 15, 15, 15, sync>> \o summed
                \o CheckNibs(TxChecksum(summed), ck) \o <<0, 0>>)

Known(name, pat, ck) == Frame(10, name, Body(pat, BodyLen(name)), ck)

Cut(b, n) == SubSeq(b, 1, n)

\* Every sensor with every body and a correct checksum; with the digits
\* body, also with either checksum nibble wrong.
FullPackets ==
    {Known(name, pat, "ok") : name \in Recognised, pat \in Patterns}
        \cup {Known(name, 2, ck) : name \in Recognised, ck \in {"lo", "hi"}}

\* Without postamble (8 bits dropped); with one checksum nibble (12).
CutPackets ==
    {Cut(Known(name, 2, "ok"), Len(Known(name, 2, "ok")) - drop) :
        name \in Recognised, drop \in {8, 12}}

BadSyncPackets ==
    {Frame(sync, name, Body(2, BodyLen(name)), "ok") :
        name \in {"1d30", "2d10"}, sync \in {0, 5}}

\* A sensor that is not in the list, the checksum where ds = len - 16
\* expects it; and two whose length is no multiple of four.
UnknownPackets ==
    {Frame(10, name, Body(pat, n), ck) :
        name \in {"1d40", "ffff"}, pat \in {2, 3}, n \in {3, LongBody},
        ck \in {"ok", "lo"}}
        \cup {Frame(10, "1d40", Body(2, n), "ok") \o <<1, 0>> : n \in {3, LongBody}}

\* Too short for a sync word (17, 19) or for a sensor name (20, 24, 35).
ShortPackets == {Cut(Known("1d30", 2, "ok"), n) : n \in {17, 19, 20, 24, 35}}

Packets ==
    FullPackets \cup CutPackets \cup BadSyncPackets \cup UnknownPackets
        \cup ShortPackets

\* A map with an earlier value for every field, and a foreign key.
StaleMap ==
    [k \in {"dateutc", "ID", "indoortempf", "indoorhumidity", "baromin",
            "dailyrainin", "windspeedmph", "windgustmph", "winddir",
            "temp2f", "tempf", "humidity", "dewptf"} |-> 1]

\* wxData=None gives {}; main passes {'dateutc': ...} and then what the
\* earlier attempts returned.
InitMaps == {EmptyMap, ScanMap, StaleMap}

\* v2.1 doubling: each logical bit is followed by its complement.
Double(b) ==
    [k \in 1..(2 * Len(b)) |->
        IF k % 2 = 1 THEN b[(k + 1) \div 2] ELSE 1 - b[k \div 2]]

NoisePats == {"zeros", "ones", "alt", "mix"}

Noise(pat, n) ==
    [k \in 1..n |->
        CASE pat = "zeros" -> 0
          [] pat = "ones"  -> 1
          [] pat = "alt"   -> k % 2
          [] pat = "mix"   -> IF k % 3 = 0 THEN 0 ELSE 1]

ScanPackets ==
    {Known("1d30", 2, "ok"), Known("2d10", 4, "ok"), Known("3d00", 2, "lo"),
     Cut(Known("1d30", 2, "ok"), 84), Cut(Known("5d60", 3, "ok"), 96),
     Frame(10, "1d40", Body(2, 3), "ok"), Frame(5, "1d20", Body(2, 11), "ok")}

PacketStreams ==
    {Noise(pre, k) \o Double(pk) \o Noise(post, t) :
        pre \in NoisePats, k \in 0..MaxOffset, pk \in ScanPackets,
        post \in {"zeros", "mix"}, t \in {0, 5}}

\* Up to 34 bits: noise, and the start of a doubled preamble.
ShortStreams ==
    {Noise(pat, n) : pat \in NoisePats, n \in {0, 1, 16, 31, 32, 33, 34}}
        \cup {Cut(Double(Noise("ones", 17)), n) : n \in {30, 31, 32, 33, 34}}

NoiseStreams == {Noise(pat, n) : pat \in NoisePats, n \in {NoiseLen, NoiseLen + 9}}

Streams == PacketStreams \cup ShortStreams \cup NoiseStreams

(***************************************************************************)
(* Spec: decodePacketv21 called on packets, each call given the map the    *)
(* one before returned                                                     *)
(***************************************************************************)
Init ==
    /\ bits = <<>>
    /\ i = 0
    /\ pc = "call"
    /\ err = "none"
    /\ tests = 0
    /\ packet = <<>>
    /\ wxData \in InitMaps
    /\ wxIn = wxData
    /\ ret = NoAttempt
    /\ calls = 0
    /\ revisit = FALSE

Attempt(p, again) ==
    LET r == decodePacketv21(p, wxData)
    IN  /\ packet' = p
        /\ wxIn' = wxData
        /\ wxData' = r.wxData
        /\ ret' = Outcome(r)
        /\ calls' = calls + 1
        /\ revisit' = again
        /\ UNCHANGED <<bits, i, pc, err, tests>>

\* A call on a packet.
Decode ==
    /\ pc = "call"
    /\ calls < MaxCalls
    /\ \E p \in Packets : Attempt(p, FALSE)

\* A call on the packet of the call before, as when the scan finds it again.
Revisit ==
    /\ pc = "call"
    /\ calls >= 1
    /\ calls < MaxCalls
    /\ Attempt(packet, TRUE)

Next == Decode \/ Revisit

Spec == Init /\ [][Next]_vars

(***************************************************************************)
(* ScanSpec: the loop of main, lines 388-401                               *)
(***************************************************************************)
ScanInit ==
    /\ bits \in Streams
    /\ i = 0
    /\ pc = "loop"
    /\ err = "none"
    /\ tests = 0
    /\ packet = <<>>
    /\ wxData = ScanMap
    /\ wxIn = ScanMap
    /\ ret = NoAttempt
    /\ calls = 0
    /\ revisit = FALSE

\* No preamble at the cursor: i += 1.
ScanSkip ==
    /\ pc = "loop"
    /\ LoopGuard(bits, i)
    /\ ~Preamble(bits, i)
    /\ i' = i + 1
    /\ tests' = tests + 1
    /\ UNCHANGED <<bits, pc, err, packet, wxData, wxIn, ret, calls, revisit>>

\* A preamble at the cursor: the try statement around the decoder call.
ScanDecode ==
    /\ pc = "loop"
    /\ LoopGuard(bits, i)
    /\ Preamble(bits, i)
    /\ LET p == From2(bits, i)
           r == CallDecodePacket(p, wxData)
       IN  /\ packet' = p
           /\ wxIn' = wxData
           /\ ret' = Outcome(r)
           /\ IF r.err = "none"
              THEN wxData' = r.wxData /\ i' = i + 1 /\ pc' = pc /\ err' = err
              ELSE IF r.err = "IndexError"
              THEN wxData' = wxData /\ i' = i + 1 /\ pc' = pc /\ err' = err
              ELSE wxData' = wxData /\ i' = i /\ pc' = "error" /\ err' = r.err
    /\ tests' = tests + 1
    /\ calls' = calls + 1
    /\ UNCHANGED <<bits, revisit>>

\* The loop condition is false: the scan has ended.
ScanExit ==
    /\ pc = "loop"
    /\ ~LoopGuard(bits, i)
    /\ pc' = "done"
    /\ UNCHANGED <<bits, i, err, tests, packet, wxData, wxIn, ret, calls, revisit>>

ScanNext == ScanSkip \/ ScanDecode \/ ScanExit

ScanSpec == ScanInit /\ [][ScanNext]_vars

(***************************************************************************)
(* The specification's vocabulary, stated on the bits of a packet          *)
(***************************************************************************)
\* The nibble at logical bits [k, k+4), least significant bit first.
NibAt(p, k) == p[k + 1] + 2 * p[k + 2] + 4 * p[k + 3] + 8 * p[k + 4]

SyncIs10(p) == Len(p) >= 20 /\ NibAt(p, 16) = 10

SyncIsOther(p) == Len(p) >= 20 /\ NibAt(p, 16) # 10

IdNibs(p) == <<NibAt(p, 20), NibAt(p, 24), NibAt(p, 28), NibAt(p, 32)>>

Is(p, id) == Len(p) >= 36 /\ IdNibs(p) = id

IsRecognised(p) ==
    \/ Is(p, <<5, 13, 6, 0>>)
    \/ Is(p, <<2, 13, 1, 0>>)
    \/ Is(p, <<3, 13, 0, 0>>)
    \/ Is(p, <<1, 13, 2, 0>>)
    \/ Is(p, <<1, 13, 3, 0>>)

\* The sensor table.
TableDs(p) ==
    CASE Is(p, <<5, 13, 6, 0>>) -> 96
      [] Is(p, <<2, 13, 1, 0>>) -> 84
      [] Is(p, <<3, 13, 0, 0>>) -> 88
      [] Is(p, <<1, 13, 2, 0>>) -> 80
      [] Is(p, <<1, 13, 3, 0>>) -> 80
      [] OTHER                  -> Len(p) - 16

\* The fields each sensor emits.
FieldsOf(p) ==
    CASE Is(p, <<5, 13, 6, 0>>) -> {"indoortempf", "indoorhumidity", "baromin"}
      [] Is(p, <<2, 13, 1, 0>>) -> {"dailyrainin"}
      [] Is(p, <<3, 13, 0, 0>>) -> {"windspeedmph", "windgustmph", "winddir"}
      [] Is(p, <<1, 13, 2, 0>>) -> {"temp2f"}
      [] Is(p, <<1, 13, 3, 0>>) -> {"tempf", "humidity", "dewptf"}
      [] OTHER                  -> {}

SensorFields ==
    {"indoortempf", "indoorhumidity", "baromin", "dailyrainin", "windspeedmph",
     "windgustmph", "winddir", "temp2f", "tempf", "humidity", "dewptf"}

\* The sum of the complete nibbles of logical bits [a, b).
RECURSIVE NibSum(_, _, _)
NibSum(p, a, b) == IF a + 4 > b THEN 0 ELSE NibAt(p, a) + NibSum(p, a + 4, b)

\* v = (s & 0xFF) + (s >> 8) for the sum s over [20, ds)
ExpectedV(p, ds) ==
    LET sm == NibSum(p, 20, ds)
    IN  (sm % 256) + (sm \div 256)

\* The packet holds its checksum nibbles, at least ds+8 logical bits.
Complete(p) == Len(p) >= TableDs(p) + 8

\* The nibble at [ds, ds+4) is v & 0xF and the one at [ds+4, ds+8) is (v >> 4) & 0xF.
ChecksOK(p) ==
    LET ds == TableDs(p)
        v  == ExpectedV(p, ds)
    IN  /\ NibAt(p, ds) = v % 16
        /\ NibAt(p, ds + 4) = (v \div 16) % 16

Called == calls >= 1

Returned == Called /\ ret.err = "none"

(***************************************************************************)
(* Claims about decodePacketv21 (Spec)                                     *)
(***************************************************************************)
\* C1: decodePacketv21 writes into the map only when the sync nibble is 10
\* and both observed checksum nibbles equal the computed ones; in every
\* other case the map after the attempt is the map passed in, key for key
\* and value for value.
C1_WriteOnlyWhenValid ==
    (Called /\ ~(SyncIs10(packet) /\ Complete(packet) /\ ChecksOK(packet)))
        => wxData = wxIn

\* A checksum mismatch of a recognised sensor on a map that holds earlier
\* values of its fields.
C1_Witness ==
    /\ Returned
    /\ SyncIs10(packet)
    /\ IsRecognised(packet)
    /\ Complete(packet)
    /\ ~ChecksOK(packet)
    /\ wxIn = StaleMap

\* C6: a packet with sync nibble 10, a recognised sensor and at least
\* ds+8 logical bits is accepted if and only if its two checksum nibbles
\* are the low and the high nibble of v.
C6_AcceptedIffChecksum ==
    (Called /\ SyncIs10(packet) /\ IsRecognised(packet) /\ Complete(packet))
        => /\ ret.err = "none"
           /\ ret.valid <=> ChecksOK(packet)

\* An accepted packet of a recognised sensor, decoded into an empty map.
C6_Witness ==
    /\ Returned
    /\ SyncIs10(packet)
    /\ IsRecognised(packet)
    /\ Complete(packet)
    /\ ret.valid
    /\ wxIn = EmptyMap
    /\ DOMAIN wxData # {}

\* C7: for a packet with sync nibble 10 and a sensor id outside the table
\* the decoder uses ds = len(packet)-16, computes the checksum over
\* [20, ds), returns without an error and leaves the map unchanged whether
\* or not the checksum validates.
C7_UnknownSensor ==
    (Called /\ SyncIs10(packet) /\ ~IsRecognised(packet))
        => /\ ret.err = "none"
           /\ ret.ds = (Len(packet) - 16 + 16) * 2
           /\ ret.valid <=> ChecksOK(packet)
           /\ wxData = wxIn

\* An unknown sensor whose checksum validates, the nibble sum carrying out
\* of the low byte.
C7_Witness ==
    /\ Returned
    /\ SyncIs10(packet)
    /\ ~IsRecognised(packet)
    /\ ret.valid
    /\ NibSum(packet, 20, Len(packet) - 16) >= 256

\* C8 as claimed: a packet whose sync nibble is not 10 returns the
\* consumed length 0; one that passes the sync check returns (ds+16)*2.
C8_Original ==
    Returned
        => IF SyncIs10(packet)
           THEN ret.ds = (TableDs(packet) + 16) * 2
           ELSE ret.ds = 0

\* C8 as amended: a packet whose sync nibble is not 10 returns the map
\* unchanged and the consumed length 32, which is (0+16)*2; one that
\* passes the sync check returns (ds+16)*2.
C8_ConsumedLength ==
    Returned
        => IF SyncIs10(packet)
           THEN ret.ds = (TableDs(packet) + 16) * 2
           ELSE ret.ds = 32 /\ ~ret.valid /\ wxData = wxIn

\* A returning attempt on a packet whose sync nibble is not 10.
C8_Witness == Returned /\ SyncIsOther(packet)

\* C9: decoding a valid packet again into the map the first decode
\* produced gives a map equal to that one.
C9_Idempotent == (revisit /\ ret.valid) => wxData = wxIn

\* A second decode of a valid packet of a recognised sensor, the map
\* holding that sensor's fields from the first.
C9_Witness ==
    /\ revisit
    /\ ret.valid
    /\ IsRecognised(packet)
    /\ FieldsOf(packet) \subseteq DOMAIN wxIn
    /\ wxIn # StaleMap

\* C10: a successful decode writes exactly the fields of its sensor and
\* leaves every other key of the map as it was.
C10_WritesOwnFields ==
    (Called /\ ret.valid /\ IsRecognised(packet))
        => /\ DOMAIN wxData = DOMAIN wxIn \cup FieldsOf(packet)
           /\ \A k \in DOMAIN wxIn \ FieldsOf(packet) : wxData[k] = wxIn[k]

\* A 1d20 decoded into an empty map: temp2f and nothing else.
C10_Witness ==
    /\ Called
    /\ ret.valid
    /\ Is(packet, <<1, 13, 2, 0>>)
    /\ wxIn = EmptyMap
    /\ DOMAIN wxData = {"temp2f"}

\* A recognised packet cut short of its checksum raises ValueError, which
\* is not the IndexError the scan loop catches.
TruncatedRaisesValueError ==
    (Called /\ SyncIs10(packet) /\ IsRecognised(packet) /\ ~Complete(packet))
        => ret.err = "ValueError" /\ wxData = wxIn

(***************************************************************************)
(* Claims about the scan loop (ScanSpec)                                   *)
(***************************************************************************)
\* C2: the loop visits the cursor positions 0 .. len(bits)-33 once each,
\* advancing by exactly one bit after every iteration whatever the decoder
\* does, and ends with the map when the cursor reaches len(bits)-32.
C2_Claim ==
    /\ pc # "error"
    /\ i = tests
    /\ pc = "done" => i = Max(Len(bits) - 32, 0)

\* The latest attempt was on a packet with sync nibble 10 and a recognised
\* sensor but fewer than ds+8 logical bits.
TruncatedAttempt ==
    /\ Called
    /\ SyncIs10(packet)
    /\ IsRecognised(packet)
    /\ ~Complete(packet)

\* C3: a truncated packet is not fatal: no error leaves the loop, nothing
\* is written to the map and the cursor has advanced past it.
C3_Claim ==
    TruncatedAttempt
        => /\ pc # "error"
           /\ wxData = wxIn
           /\ \E c \in 0..(i - 1) : packet = From2(bits, c)

\* A complete, valid packet of a recognised sensor starts at offset k.
EmbeddedAt(b, k) ==
    /\ Slice(b, k, k + 32) = Double(Noise("ones", 16))
    /\ SyncIs10(From2(b, k))
    /\ IsRecognised(From2(b, k))
    /\ Complete(From2(b, k))
    /\ ChecksOK(From2(b, k))

\* C4: a stream holding one valid packet at an offset k, 0 < k <
\* len(bits)-32, is scanned to its end and the map then holds the fields
\* of that packet's sensor.
C4_Claim ==
    \A k \in 1..(Len(bits) - 33) :
        EmbeddedAt(bits, k)
            => /\ pc # "error"
               /\ pc = "done" => FieldsOf(From2(bits, k)) \subseteq DOMAIN wxData

\* C5: on a stream shorter than 32 bits the loop body never runs: no
\* preamble test, no decoder call, no error, and no sensor field in the map.
C5_ShortStream ==
    Len(bits) < 32
        => /\ tests = 0
           /\ calls = 0
           /\ i = 0
           /\ pc # "error"
           /\ DOMAIN wxData \cap SensorFields = {}

\* The scan of a 31-bit stream that starts like a doubled preamble has ended.
C5_Witness ==
    /\ pc = "done"
    /\ Len(bits) = 31
    /\ Sum(Slice2(bits, 0, 31)) = 16

====
